---- MODULE Spec2Model ----
(***************************************************************************)
(* Model of streamlit_app.py, the judicial pension loss calculator.        *)
(*                                                                         *)
(* The script is re-run from top to bottom on every widget interaction.    *)
(* The state is the value of every widget, whether the report button was   *)
(* pressed in the last run, and what that run ended with (its exception,   *)
(* the document handed to the download button).  The locals of the last    *)
(* run are a function of the widget values (page).  One action per widget  *)
(* models "the operator changes this widget and the script re-runs".       *)
(* LookupSpec and EngineSpec apply the lookup and the two calculations to  *)
(* inputs of their own and keep the resulting locals in probe.             *)
(*                                                                         *)
(* Numbers.  The script computes with Python floats, IEEE 754 doubles, and *)
(* so does the model: RAdd, RSub, RMul, RDiv and RPow give the real result *)
(* rounded to the nearest double, ties to the even significand, and a      *)
(* decimal literal is the double nearest to it.  A double, like every sum, *)
(* difference and product of doubles before it is rounded, is a dyadic     *)
(* number                                                                  *)
(*     [neg, num, e]     of the value  (-1)^neg * num * 2^e                *)
(* num an odd natural number held as a little-endian sequence of limbs of  *)
(* LimbBits bits (TLC's integers are 32 bits wide, a significand is 53),   *)
(* and zero is [FALSE, <<>>, 0]; equal numbers have equal representations. *)
(* A double is a dyadic number whose num has at most Precision bits.  The  *)
(* Exact operators work on dyadic numbers without rounding; the properties *)
(* use them to measure how far a rounded figure is from the real one.      *)
(* Not modelled: the sign of zero (-0.0 equals 0.0 in every comparison of  *)
(* the script), and overflow, underflow and nan, which amounts of money of *)
(* the sizes sampled stay far away from.                                   *)
(***************************************************************************)
EXTENDS Integers, Sequences, FiniteSets, Bags, TLC

Base == 8192

\* The bits of a limb: Base = 2^LimbBits.
LimbBits == 13

\* The bits of the significand of a double.
Precision == 53

RECURSIVE IPow(_, _)
IPow(p, k) == IF k = 0 THEN 1
              ELSE IF k % 2 = 1 THEN p * IPow(p, k - 1)
              ELSE IPow(p * p, k \div 2)

Abs(n) == IF n < 0 THEN -n ELSE n

-----------------------------------------------------------------------------
(* Natural numbers of any size.  The operations work on all limbs at once  *)
(* where they can (carries are looked ahead rather than rippled), and an   *)
(* intermediate result is worked out before the operation that uses it is  *)
(* entered, so that the evaluation stays shallow.                          *)

\* The one element of a set of one element; with S a set {f(x) : x \in {e}} it
\* is f(e) with e worked out once and first.
Only(S) == CHOOSE x \in S : TRUE

\* The function f with every value worked out.
Cells(f) == f @@ <<>>

\* The sum of the values of a function of natural numbers: the number of
\* copies in the bag of its positive values.
Sum(f) == BagCardinality([x \in {y \in DOMAIN f : f[y] > 0} |-> f[x]])

\* The first k limbs of a, and the limbs after them.
Lo(a, k) == SubSeq(a, 1, IF k < Len(a) THEN k ELSE Len(a))

Hi(a, k) == IF k < Len(a) THEN SubSeq(a, k + 1, Len(a)) ELSE <<>>

Limb(a, i) == IF i \in 1..Len(a) THEN a[i] ELSE 0

\* The number of zero limbs at the top of a, which has a limb that is not zero.
TopZeros(a) ==
    CHOOSE k \in 0..(Len(a) - 1) :
        a[Len(a) - k] # 0 /\ \A m \in 0..(k - 1) : a[Len(a) - m] = 0

BNorm(a) ==
    IF \A i \in DOMAIN a : a[i] = 0 THEN <<>>
    ELSE SubSeq(a, 1, Len(a) - TopZeros(a))

BFromInt(n) ==
    IF n = 0 THEN <<>>
    ELSE IF n < Base THEN <<n>>
    ELSE IF n < Base * Base THEN <<n % Base, n \div Base>>
    ELSE <<n % Base, (n \div Base) % Base, n \div (Base * Base)>>

\* a shifted up by k limbs.
BShift(a, k) == IF a = <<>> THEN <<>> ELSE [i \in 1..k |-> 0] \o a

\* The limb-wise sums of a and b, one limb more than the longer of them.
BAddCols(a, b) ==
    Cells([i \in 1..((IF Len(a) > Len(b) THEN Len(a) ELSE Len(b)) + 1) |->
              Limb(a, i) + Limb(b, i)])

\* How far below limb i the nearest limb of S that is not v lies (i if there
\* is none).
RunBelow(S, i, v) ==
    CHOOSE k \in 1..i :
        (k = i \/ S[i - k] # v) /\ \A m \in 1..(k - 1) : S[i - m] = v

\* The carry into limb i: the nearest lower limb that does not just pass a
\* carry on overflows.
CarryInto(S, i) ==
    IF \E k \in {RunBelow(S, i, Base - 1)} : k < i /\ S[i - k] >= Base
    THEN 1 ELSE 0

BCarry(S) == BNorm(Cells([i \in DOMAIN S |-> (S[i] + CarryInto(S, i)) % Base]))

BAdd(a, b) == Only({BCarry(S) : S \in {BAddCols(a, b)}})

\* The limb-wise differences of a and b, for a >= b.
BSubCols(a, b) == Cells([i \in 1..Len(a) |-> a[i] - Limb(b, i)])

\* The borrow from limb i: the nearest lower limb that is not zero is negative.
BorrowFrom(D, i) ==
    IF \E k \in {RunBelow(D, i, 0)} : k < i /\ D[i - k] < 0
    THEN 1 ELSE 0

BBorrow(D) == BNorm(Cells([i \in DOMAIN D |-> (D[i] - BorrowFrom(D, i)) % Base]))

BSub(a, b) == Only({BBorrow(D) : D \in {BSubCols(a, b)}})

\* The highest limb where a and b of the same length differ decides: k is
\* how far below the top it lies.
BCmpAt(a, b, k) == IF a[Len(a) - k] < b[Len(a) - k] THEN -1 ELSE 1

BCmp(a, b) ==
    IF Len(a) < Len(b) THEN -1
    ELSE IF Len(a) > Len(b) THEN 1
    ELSE IF \A i \in DOMAIN a : a[Len(a) + 1 - i] = b[Len(a) + 1 - i] THEN 0
    ELSE BCmpAt(a, b, CHOOSE k \in 0..(Len(a) - 1) :
                          /\ a[Len(a) - k] # b[Len(a) - k]
                          /\ \A m \in 0..(k - 1) : a[Len(a) - m] = b[Len(a) - m])

\* The number of products of two limbs whose sum stays below 2^31.
MaxTerms == 2147483647 \div ((Base - 1) * (Base - 1))

\* Column k of the long multiplication of a by b: the sum of the products of
\* the limbs whose places add up to k.
BMulCol(a, b, k) ==
    Sum([i \in (IF k > Len(b) THEN k + 1 - Len(b) ELSE 1)..(IF k < Len(a) THEN k ELSE Len(a)) |->
             a[i] * b[k + 1 - i]])

BMulCols(a, b) == Cells([k \in 1..(Len(a) + Len(b) - 1) |-> BMulCol(a, b, k)])

\* The number whose limb i is digit k (in base Base) of column i - k.
BPlane(C, k) ==
    Cells([i \in 1..(Len(C) + k) |->
              IF i <= k THEN 0 ELSE (C[i - k] \div IPow(Base, k)) % Base])

\* The sum of the numbers of the sequence p.
RECURSIVE BSum(_)
BSum(p) ==
    IF Len(p) = 1 THEN p[1]
    ELSE Only({BSum(<<x>> \o Hi(p, 2)) : x \in {BAdd(p[1], p[2])}})

\* The product of a and b, the shorter of which has at most MaxTerms limbs.
BMulShort(a, b) ==
    Only({BSum(<<BPlane(C, 0), BPlane(C, 1), BPlane(C, 2)>>) : C \in {BMulCols(a, b)}})

\* b in pieces of MaxTerms limbs, each in its place.
RECURSIVE BPieces(_, _, _)
BPieces(a, b, k) ==
    IF b = <<>> THEN <<>>
    ELSE <<BShift(BMulShort(a, Lo(b, MaxTerms)), k)>>
         \o BPieces(a, Hi(b, MaxTerms), k + MaxTerms)

BMul(a, b) ==
    IF a = <<>> \/ b = <<>> THEN <<>>
    ELSE IF a = <<1>> THEN b
    ELSE IF b = <<1>> THEN a
    ELSE BSum(BPieces(a, b, 0))

RECURSIVE BPow(_, _)
BPow(a, k) ==
    IF k = 0 THEN <<1>>
    ELSE IF k = 1 THEN a
    ELSE Only({BMul(h, IF k % 2 = 1 THEN BMul(h, a) ELSE h) :
               h \in {BPow(a, k \div 2)}})

\* The number of bits of the limb n: the powers of two up to n.
BitLen(n) == Cardinality({k \in 0..(LimbBits - 1) : IPow(2, k) <= n})

\* The number of bits of a.
BBits(a) == IF a = <<>> THEN 0 ELSE LimbBits * (Len(a) - 1) + BitLen(a[Len(a)])

\* Bit k of a, bit 0 being the lowest.
BBit(a, k) == (Limb(a, k \div LimbBits + 1) \div IPow(2, k % LimbBits)) % 2

\* Whether one of the k lowest bits of a is set.
BLowSet(a, k) ==
    \E i \in DOMAIN a :
        IF i <= k \div LimbBits THEN a[i] # 0
        ELSE i = k \div LimbBits + 1 /\ a[i] % IPow(2, k % LimbBits) # 0

\* The number of zero bits below the lowest set bit of a # 0.
BLowZeros(a) ==
    LET j == CHOOSE i \in DOMAIN a : a[i] # 0 /\ \A m \in 1..(i - 1) : a[m] = 0
    IN  (LimbBits * (j - 1))
        + Cardinality({k \in 1..(LimbBits - 1) : a[j] % IPow(2, k) = 0})

\* a * c * Base^q for a limb c: each limb takes the low limb of its own
\* product and the high limb of the product of the place below.
BTimesLimb(a, c, q) ==
    BCarry(Cells([i \in 1..(Len(a) + q + 1) |->
               IF i <= q THEN 0
               ELSE ((Limb(a, i - q) * c) % Base) + ((Limb(a, i - q - 1) * c) \div Base)]))

\* a * 2^k.
BShl(a, k) ==
    Only({BTimesLimb(p[1], IPow(2, p[2] % LimbBits), p[2] \div LimbBits) : p \in {<<a, k>>}})

\* a \div 2^k: each limb takes the high bits of its own place and the bits
\* pushed out of the place above.
BShrBy(a, q, m) ==
    BNorm(Cells([i \in 1..(Len(a) - q) |->
              (Limb(a, i + q) \div m) + ((Limb(a, i + q + 1) % m) * (Base \div m))]))

BShr(a, k) ==
    Only({BShrBy(p[1], p[2] \div LimbBits, IPow(2, p[2] % LimbBits)) : p \in {<<a, k>>}})

\* The greatest digit c at most est with c * d, j places up, at most r, and
\* that multiple of d.
RECURSIVE BDigitFrom(_, _, _, _)
BDigitFrom(r, d, j, est) ==
    Only({IF BCmp(t, r) <= 0 THEN [c |-> est, times |-> t]
          ELSE BDigitFrom(r, d, j, est - 1) :
          t \in {BTimesLimb(d, est, j)}})

\* The digit c at place j of the quotient of r by d, and c * d at that place,
\* for d with a top limb of at least Base / 2 and r < d * Base^(j + 1): the
\* two top limbs of r by the top limb of d is the digit or at most two above it.
BDivDigit(r, d, j) ==
    Only({BDigitFrom(r, d, j, IF est < Base THEN est ELSE Base - 1) :
          est \in {(Limb(r, Len(d) + j + 1) * Base + Limb(r, Len(d) + j))
                       \div d[Len(d)]}})

\* Long division: the digits of the quotient from place j down, r being what
\* is left of the dividend and q the digits above place j.
RECURSIVE BDivFrom(_, _, _, _)
BDivFrom(r, d, j, q) ==
    IF j < 0 THEN [q |-> BNorm(q), r |-> r]
    ELSE Only({Only({BDivFrom(x, d, j - 1, <<c.c>> \o q) :
                     x \in {BSub(r, c.times)}}) :
               c \in {BDivDigit(r, d, j)}})

\* The quotient q of a by d # 0, and r = 0 exactly if d divides a (r is the
\* remainder times the power of two that brings the top limb of d to Base / 2).
BDivMod(a, d) ==
    Only({BDivFrom(p[1], p[2], Len(p[1]) - Len(p[2]), <<>>) :
          p \in {Only({<<BShl(a, LimbBits - BitLen(x[Len(x)])),
                         BShl(x, LimbBits - BitLen(x[Len(x)]))>> :
                       x \in {d}})}})

-----------------------------------------------------------------------------
(* Dyadic numbers and doubles.                                             *)

Zero == [neg |-> FALSE, num |-> <<>>, e |-> 0]

\* (-1)^neg * n * 2^e with the zero bits at the low end of n moved into e.
DyadicOf(neg, n, e) ==
    IF n = <<>> THEN Zero
    ELSE IF n[1] % 2 = 1 THEN [neg |-> neg, num |-> n, e |-> e]
    ELSE Only({[neg |-> neg, num |-> BShr(n, z), e |-> e + z] : z \in {BLowZeros(n)}})

Dyadic(neg, n, e) == Only({DyadicOf(neg, m, e) : m \in {n}})

\* A Python int as a number of the script (every int of the script is far
\* below 2^53 and so is a double).
RInt(n) == Dyadic(n < 0, BFromInt(Abs(n)), 0)

ExactNeg(a) == IF a.num = <<>> THEN a ELSE [a EXCEPT !.neg = ~a.neg]

ExactAbs(a) == [a EXCEPT !.neg = FALSE]

RSign(a) == IF a.num = <<>> THEN 0 ELSE IF a.neg THEN -1 ELSE 1

\* The sum of x, signed by aneg, and y, signed by bneg, times 2^e.
ExactAddNum(aneg, x, bneg, y, e) ==
    Only({Dyadic(IF c >= 0 THEN aneg ELSE bneg,
                 IF aneg = bneg THEN BAdd(x, y)
                 ELSE BSub(IF c >= 0 THEN x ELSE y, IF c >= 0 THEN y ELSE x),
                 e) :
          c \in {BCmp(x, y)}})

\* The two numbers of p with their significands brought to the exponent e.
ExactAddAt(p, e) ==
    Only({ExactAddNum(p[1].neg, n[1], p[2].neg, n[2], e) :
          n \in {Cells([j \in 1..2 |-> BShl(p[j].num, p[j].e - e)])}})

\* a + b, a - b and a * b as real numbers.
ExactAdd(a, b) ==
    Only({ExactAddAt(p, IF p[1].e < p[2].e THEN p[1].e ELSE p[2].e) : p \in {<<a, b>>}})

ExactSub(a, b) == ExactAdd(a, ExactNeg(b))

ExactMul(a, b) ==
    Only({Only({Dyadic(p[1].neg # p[2].neg, n, p[1].e + p[2].e) :
                n \in {BMul(p[1].num, p[2].num)}}) :
          p \in {<<a, b>>}})

\* a^k as a real number, for k >= 0.
ExactPow(a, k) ==
    IF k = 0 THEN RInt(1)
    ELSE Dyadic(a.neg /\ k % 2 = 1, BPow(a.num, k), a.e * k)

\* n with its s lowest bits rounded away: to the nearest, and to the even one
\* of two that are equally near.
RoundOff(n, s) ==
    Only({IF BBit(n, s - 1) = 1 /\ (BLowSet(n, s - 1) \/ q[1] % 2 = 1)
          THEN BAdd(q, <<1>>) ELSE q :
          q \in {BShr(n, s)}})

\* The double nearest to the dyadic number x.
Float(x) ==
    Only({IF bits <= Precision THEN x
          ELSE Dyadic(x.neg, RoundOff(x.num, bits - Precision), x.e + bits - Precision) :
          bits \in {BBits(x.num)}})

\* The double nearest to x / y, for dyadic x and y # 0: the quotient of the
\* significands to two bits more than a double holds, with a last bit that
\* says whether anything is left over, is rounded as the real quotient is.
FloatQuotientBy(x, y, s) ==
    Only({Float(Dyadic(x.neg # y.neg,
                       BAdd(BShl(d.q, 1), IF d.r = <<>> THEN <<>> ELSE <<1>>),
                       x.e - y.e - s - 1)) :
          d \in {BDivMod(BShl(x.num, s), y.num)}})

FloatQuotient(x, y) ==
    IF y.num = <<>> THEN CHOOSE r \in {} : TRUE
    ELSE IF x.num = <<>> THEN Zero
    ELSE Only({FloatQuotientBy(x, y, IF s > 0 THEN s ELSE 0) :
               s \in {Precision + 2 + BBits(y.num) - BBits(x.num)}})

\* Python's float +, -, * and /: the real result, rounded.
RAdd(a, b) == Only({Float(x) : x \in {ExactAdd(a, b)}})

RSub(a, b) == Only({Float(x) : x \in {ExactSub(a, b)}})

RMul(a, b) == Only({Float(x) : x \in {ExactMul(a, b)}})

RDiv(a, b) == FloatQuotient(a, b)

RNeg(a) == ExactNeg(a)

\* The decimal literal n / d, e.g. Dec(2450, 100) for 24.50: the double
\* nearest to it.
Dec(n, d) == RDiv(RInt(n), RInt(d))

ExactCmp(a, b) == RSign(ExactSub(a, b))

RCmp(a, b) == ExactCmp(a, b)

RLt(a, b) == RCmp(a, b) < 0

RLe(a, b) == RCmp(a, b) <= 0

\* Python's max(a, b) and min(a, b): the first argument unless the second is
\* strictly greater (smaller).
RMax(a, b) == Only({IF RLt(p[1], p[2]) THEN p[2] ELSE p[1] : p \in {<<a, b>>}})

RMin(a, b) == Only({IF RLt(p[2], p[1]) THEN p[2] ELSE p[1] : p \in {<<a, b>>}})

\* Python's a ** k for a float a and an int k, which is C's pow(a, k): the
\* real power, rounded (the C library's pow gives the nearest double for
\* every power the script takes).
RPow(a, k) ==
    IF k < 0 THEN Only({FloatQuotient(RInt(1), x) : x \in {ExactPow(a, -k)}})
    ELSE Only({Float(x) : x \in {ExactPow(a, k)}})

\* The relative tolerance of a comparison up to rounding, 2^-ToleranceBits:
\* a few thousand times the rounding error of one operation.
ToleranceBits == 40

\* Whether x and y, as real numbers, differ by at most 2^-ToleranceBits times
\* the magnitude of scale.
Within(x, y, scale) ==
    ExactCmp(ExactAbs(ExactSub(x, y)),
             ExactMul([neg |-> FALSE, num |-> <<1>>, e |-> -ToleranceBits],
                      ExactAbs(scale))) <= 0

-----------------------------------------------------------------------------
(* The Ogden table (demo dataset).                                         *)

MinAge == 40

MaxAge == 60

\* list(range(40, 61))
ages == Cells([i \in 1..(MaxAge - MinAge + 1) |-> MinAge + i - 1])

\* A faulty variant of base: the step is added for every year, not taken off.
base_rising(start, step) ==
    Cells([i \in DOMAIN ages |-> RAdd(start, RMul(step, RInt(ages[i] - 40)))])

\* [start - (step * (x-40)) for x in ages]
base(start, step) ==
    Cells([i \in DOMAIN ages |-> RSub(start, RMul(step, RInt(ages[i] - 40)))])

base_60(gender) == IF gender = "Male" THEN base(Dec(2450, 100), Dec(95, 100))
                   ELSE base(Dec(2600, 100), Dec(90, 100))

base_65(gender) == IF gender = "Male" THEN base(Dec(2200, 100), Dec(6, 10))
                   ELSE base(Dec(2350, 100), Dec(55, 100))

base_68(gender) == IF gender = "Male" THEN base(Dec(1950, 100), Dec(5, 10))
                   ELSE base(Dec(2100, 100), Dec(5, 10))

\* A DataFrame is a function from column name to the column's sequence of cells.
DataFrame(gender) ==
    ("Age at Trial" :> Cells([i \in DOMAIN ages |-> RInt(ages[i])]))
    @@ ("Retire at 60" :> base_60(gender))
    @@ ("Retire at 65" :> base_65(gender))
    @@ ("Retire at 68" :> base_68(gender))

\* lambda x: max(0.0, x) on every cell of a column.
applymap_column(column) ==
    Cells([i \in DOMAIN column |-> RMax(RInt(0), column[i])])

\* df.applymap(lambda x: max(0.0, x)): every cell of every column.
applymap_max0(df) ==
    Cells([c \in DOMAIN df |-> applymap_column(df[c])])

\* The body of get_ogden_subset: the frame and the table's name for a gender.
ogden_subset(gender) ==
    [df |-> applymap_max0(DataFrame(gender)),
     table_name |-> IF gender = "Male" THEN "Table 28 (Males)"
                    ELSE "Table 29 (Females)"]

\* The function reads nothing but its argument and takes one branch for
\* "Male" and the other for every other gender: its two results.
ogden_subsets ==
    Cells([gender \in {"Male", "Female"} |-> ogden_subset(gender)])

get_ogden_subset(gender) ==
    ogden_subsets[IF gender = "Male" THEN "Male" ELSE "Female"]

-----------------------------------------------------------------------------
(* The script, one operator per assignment.  An operator takes the         *)
(* environment (the widget values and the locals assigned so far, by name) *)
(* and gives the environment after the assignment.                         *)

\* name = value: the name is bound, or bound again, in the environment.
Assign(env, name, value) ==
    IF name \in DOMAIN env THEN [env EXCEPT ![name] = value]
    ELSE env @@ (name :> value)

Raised(env) == env.exception # "None"

\* Simple method

annual_loss(env) ==
    Assign(env, "annual_loss", RMul(env.gross_salary, RDiv(env.contrib, RInt(100))))

\* A faulty variant of simple_net_total: the period is left out.
simple_net_total_one_year(env) ==
    Assign(env, "net_total", env.annual_loss)

simple_net_total(env) ==
    Assign(env, "net_total", RMul(env.annual_loss, env.period))

simple_taxable(env) ==
    Assign(env, "taxable", RMax(RInt(0), RSub(env.net_total, env.tax_free_remaining)))

\* taxable / (1 - tax_rate) raises ZeroDivisionError when 1 - tax_rate is 0.
simple_gross_total(env) ==
    IF RSign(RSub(RInt(1), env.tax_rate)) = 0
    THEN Assign(env, "exception", "ZeroDivisionError")
    ELSE Assign(env, "gross_total",
                RAdd(RMin(env.net_total, env.tax_free_remaining),
                     RDiv(env.taxable, RSub(RInt(1), env.tax_rate))))

\* A faulty variant of simple_r_data: the salary is left out of the payload.
simple_r_data_no_salary(env) ==
    IF Raised(env) THEN env
    ELSE Assign(env, "r_data",
                [contrib_rate |-> env.contrib, tax_rate |-> env.tax_rate])

simple_r_data(env) ==
    IF Raised(env) THEN env
    ELSE Assign(env, "r_data",
                [gross_salary |-> env.gross_salary, contrib_rate |-> env.contrib,
                 tax_rate |-> env.tax_rate])

simple_r_res(env) ==
    IF Raised(env) THEN env
    ELSE Assign(env, "r_res",
                [net_total |-> env.net_total, gross_total |-> env.gross_total])

simple_method(env) ==
    simple_r_res(simple_r_data(simple_gross_total(simple_taxable(
        simple_net_total(annual_loss(env))))))

\* Complex method

net_annual_loss(env) ==
    Assign(env, "net_annual_loss",
           RSub(env.old_pension, RAdd(env.accrued_pension, env.new_pension)))

\* df_ogden, table_name = get_ogden_subset(gender)
df_ogden(env) ==
    Only({Assign(Assign(env, "df_ogden", returned.df), "table_name", returned.table_name) :
          returned \in {get_ogden_subset(env.gender)}})

\* f"Retire at {ret_age}"
target_col(env) ==
    Assign(env, "target_col", "Retire at " \o ToString(env.ret_age))

\* A faulty variant of loc_values: an age outside the band takes the nearest row.
loc_values_nearest(df, claimant_age, col) ==
    LET nearest == IF claimant_age < MinAge THEN MinAge
                   ELSE IF claimant_age > MaxAge THEN MaxAge ELSE claimant_age
        rows == {i \in DOMAIN df[col] : df["Age at Trial"][i] = RInt(nearest)}
        row(k) == CHOOSE i \in rows : Cardinality({j \in rows : j <= i}) = k
    IN  Cells([k \in 1..Cardinality(rows) |-> df[col][row(k)]])

\* df_ogden.loc[df_ogden['Age at Trial'] == claimant_age, target_col].values
loc_values(df, claimant_age, col) ==
    LET rows == {i \in DOMAIN df[col] : df["Age at Trial"][i] = RInt(claimant_age)}
        row(k) == CHOOSE i \in rows : Cardinality({j \in rows : j <= i}) = k
    IN  Cells([k \in 1..Cardinality(rows) |-> df[col][row(k)]])

\* Lookup Logic: values[0], or the except IndexError branch.
try_values(env, values) ==
    IF values # <<>>
    THEN Assign(Assign(env, "auto_multiplier", values[1]), "found_in_table", TRUE)
    ELSE Assign(Assign(env, "auto_multiplier", RInt(0)), "found_in_table", FALSE)

lookup(env) ==
    try_values(env, loc_values(env.df_ogden, env.claimant_age, env.target_col))

yrs_to_retire(env) ==
    Assign(env, "yrs_to_retire", env.ret_age - env.claimant_age)

\* A faulty variant of ls_discount_factor: the exponent has lost its sign.
ls_discount_factor_reduced(env) ==
    Assign(env, "ls_discount_factor",
           RPow(RAdd(RInt(1), Dec(-25, 10000)), env.yrs_to_retire))

\* (1 + -0.0025) ** -yrs_to_retire
ls_discount_factor(env) ==
    Assign(env, "ls_discount_factor",
           RPow(RAdd(RInt(1), Dec(-25, 10000)), -env.yrs_to_retire))

pv_old_lump(env) ==
    Assign(env, "pv_old_lump", RMul(env.old_lump, env.ls_discount_factor))

pv_new_future(env) ==
    Assign(env, "pv_new_future", RMul(env.new_lump_future, env.ls_discount_factor))

pv_new_total(env) ==
    Assign(env, "pv_new_total", RAdd(env.pv_new_future, env.new_lump_now))

\* A faulty variant of lump_val: a negative loss is floored at zero.
lump_val_clamped(env) ==
    Assign(env, "lump_val", RMax(RInt(0), RSub(env.pv_old_lump, env.pv_new_total)))

lump_val(env) ==
    Assign(env, "lump_val", RSub(env.pv_old_lump, env.pv_new_total))

cap_val(env) ==
    Assign(env, "cap_val", RMul(env.net_annual_loss, env.multiplier))

total_raw(env) ==
    Assign(env, "total_raw", RAdd(env.cap_val, env.lump_val))

\* A faulty variant of deduction: the withdrawal is taken on the capital value only.
deduction_capital_only(env) ==
    Assign(env, "deduction",
           RMul(env.cap_val, RDiv(RInt(env.withdrawal), RInt(100))))

deduction(env) ==
    Assign(env, "deduction",
           RMul(env.total_raw, RDiv(RInt(env.withdrawal), RInt(100))))

net_total(env) ==
    Assign(env, "net_total", RSub(env.total_raw, env.deduction))

taxable(env) ==
    Assign(env, "taxable", RMax(RInt(0), RSub(env.net_total, env.tax_free_remaining)))

\* A faulty variant of gross_total: tax is added on the taxable part instead of
\* the taxable part being divided by what is left after tax.
gross_total_tax_added(env) ==
    Assign(env, "gross_total",
           RAdd(RMin(env.net_total, env.tax_free_remaining),
                RMul(env.taxable, RAdd(RInt(1), env.tax_rate))))

\* taxable / (1 - tax_rate) raises ZeroDivisionError when 1 - tax_rate is 0.
gross_total(env) ==
    IF RSign(RSub(RInt(1), env.tax_rate)) = 0
    THEN Assign(env, "exception", "ZeroDivisionError")
    ELSE Assign(env, "gross_total",
                RAdd(RMin(env.net_total, env.tax_free_remaining),
                     RDiv(env.taxable, RSub(RInt(1), env.tax_rate))))

tax_element(env) ==
    IF Raised(env) THEN env
    ELSE Assign(env, "tax_element", RSub(env.gross_total, env.net_total))

\* The 'Value' column of comp_data: Pension Capital, Lump Sum Loss, Tax Gross-Up.
comp_data(env) ==
    IF Raised(env) THEN env
    ELSE Assign(env, "comp_data",
                <<RMul(env.cap_val, RSub(RInt(1), RDiv(RInt(env.withdrawal), RInt(100)))),
                  RMul(env.lump_val, RSub(RInt(1), RDiv(RInt(env.withdrawal), RInt(100)))),
                  env.tax_element>>)

r_data(env) ==
    IF Raised(env) THEN env
    ELSE Assign(env, "r_data",
                [age |-> env.claimant_age, gender |-> env.gender,
                 ret_age |-> env.ret_age, table_ref |-> env.table_name,
                 multiplier |-> env.multiplier, withdrawal |-> env.withdrawal,
                 tax_rate |-> env.tax_rate, years_to_retire |-> env.yrs_to_retire,
                 old_lump |-> env.old_lump, new_lump_future |-> env.new_lump_future,
                 new_lump_now |-> env.new_lump_now])

r_res(env) ==
    IF Raised(env) THEN env
    ELSE Assign(env, "r_res",
                [net_annual_loss |-> env.net_annual_loss,
                 capital_value_raw |-> env.cap_val, lump_sum_val |-> env.lump_val,
                 withdrawal_deduction |-> env.deduction, net_total |-> env.net_total,
                 gross_total |-> env.gross_total,
                 ls_discount_factor |-> env.ls_discount_factor])

\* STEP 4: MULTIPLIER, up to the lookup's result.
step4_lookup(env) ==
    lookup(target_col(df_ogden(env)))

\* 1. Discount Factor
discount_factor(env) == ls_discount_factor(yrs_to_retire(env))

\* 2. Present Value (PV) Calculations, 3. Net Lump Sum Loss
present_value(env) == lump_val(pv_new_total(pv_new_future(pv_old_lump(env))))

\* Totals
totals(env) == net_total(deduction(total_raw(cap_val(env))))

\* Gross Up
gross_up(env) ==
    Only({Only({tax_element(gross) :
        gross \in {gross_total(portion)}}) :
        portion \in {taxable(env)}})

\* CALCULATION ENGINE: the blocks in the order of the script, each on the
\* environment the blocks before it leave.
calculation_engine(env) ==
    Only({Only({Only({gross_up(net) :
        net \in {totals(pv)}}) :
        pv \in {present_value(factor)}}) :
        factor \in {discount_factor(env)}})

\* RESULTS and Report Data Pack
report_data_pack(env) == r_res(r_data(comp_data(env)))

complex_method(env) ==
    Only({Only({report_data_pack(engine) :
        engine \in {calculation_engine(step4)}}) :
        step4 \in {step4_lookup(net_annual_loss(env))}})

\* The multiplier the lookup gives for a gender, an age and a retirement age.
auto_multiplier(gender, claimant_age, ret_age) ==
    step4_lookup([gender |-> gender, claimant_age |-> claimant_age,
                  ret_age |-> ret_age]).auto_multiplier

-----------------------------------------------------------------------------
(* Report generator.                                                       *)

\* The attributes python-docx gives the objects generate_report uses.
DocxAPI ==
    [Document |-> {"add_heading", "add_page_break", "add_paragraph", "add_picture",
                   "add_section", "add_table", "core_properties", "inline_shapes",
                   "paragraphs", "part", "save", "sections", "settings", "styles",
                   "tables"},
     Paragraph |-> {"add_run", "alignment", "clear", "insert_paragraph_before",
                    "paragraph_format", "runs", "style", "text"},
     Table |-> {"add_column", "add_row", "alignment", "autofit", "cell",
                "column_cells", "columns", "row_cells", "rows", "style",
                "table_direction"}]

NoKeys == {}

Call(line, obj, attr, heading, data, results) ==
    [line |-> line, obj |-> obj, attr |-> attr, heading |-> heading,
     data |-> data, results |-> results]

\* The calls generate_report makes, in order: the object, the attribute used,
\* the level-1 heading added (if any) and the keys of data and results read.
report_calls(method) ==
    <<Call(61, "Document", "add_heading", "", NoKeys, NoKeys),
      Call(62, "Paragraph", "alignment", "", NoKeys, NoKeys),
      Call(63, "Document", "add_paragraph", "", NoKeys, NoKeys),
      Call(65, "Document", "add_paragraph", "", NoKeys, NoKeys),
      Call(66, "Paragraph", "add_runner", "", NoKeys, NoKeys),
      Call(69, "Document", "add_heading", "1. Inputs & Assumptions", NoKeys, NoKeys),
      Call(70, "Document", "add_table", "", NoKeys, NoKeys),
      Call(71, "Table", "style", "", NoKeys, NoKeys)>>
    \o (IF method = "Complex"
        THEN <<Call(78, "Table", "add_row", "", {"age"}, NoKeys),
               Call(79, "Table", "add_row", "", {"ret_age"}, NoKeys),
               Call(80, "Table", "add_row", "", {"years_to_retire"}, NoKeys),
               Call(81, "Table", "add_row", "", {"multiplier"}, NoKeys),
               Call(82, "Table", "add_row", "", NoKeys, NoKeys),
               Call(83, "Table", "add_row", "", {"withdrawal"}, NoKeys)>>
        ELSE <<Call(85, "Table", "add_row", "", {"gross_salary"}, NoKeys)>>)
    \o <<Call(87, "Table", "add_row", "", {"tax_rate"}, NoKeys),
         Call(90, "Document", "add_heading", "2. Calculation Detail", NoKeys, NoKeys)>>
    \o (IF method = "Complex"
        THEN <<Call(92, "Document", "add_paragraph", "", NoKeys, {"net_annual_loss"}),
               Call(93, "Document", "add_paragraph", "", NoKeys, {"capital_value_raw"}),
               Call(96, "Document", "add_heading", "", NoKeys, NoKeys),
               Call(97, "Document", "add_paragraph", "", {"old_lump"}, NoKeys),
               Call(98, "Document", "add_paragraph", "", {"new_lump_future"}, NoKeys),
               Call(99, "Document", "add_paragraph", "", {"new_lump_now"}, NoKeys),
               Call(100, "Document", "add_paragraph", "", NoKeys, {"ls_discount_factor"}),
               Call(101, "Document", "add_paragraph", "", NoKeys, {"lump_sum_val"}),
               Call(103, "Document", "add_heading", "", NoKeys, NoKeys),
               Call(104, "Document", "add_paragraph", "", NoKeys, {"withdrawal_deduction"}),
               Call(105, "Document", "add_paragraph", "", NoKeys, {"net_total"})>>
        ELSE <<Call(107, "Document", "add_paragraph", "", NoKeys, {"net_total"})>>)
    \o <<Call(110, "Document", "add_heading", "3. Grossed Up Award", NoKeys, NoKeys),
         Call(111, "Document", "add_paragraph", "", NoKeys, {"gross_total"}),
         Call(114, "Document", "save", "", NoKeys, NoKeys)>>

\* What a call raises on the given payload, "None" when it succeeds.
call_raises(c, data, results) ==
    IF c.attr \notin DocxAPI[c.obj] THEN "AttributeError"
    ELSE IF ~(c.data \subseteq DOMAIN data /\ c.results \subseteq DOMAIN results)
         THEN "KeyError"
    ELSE "None"

\* The calls run in order up to the first that raises; the result is the
\* exception ("None" when the buffer is returned) and the level-1 headings
\* added before it.
generate_report(data, results, method) ==
    LET calls == report_calls(method)
        raising == {i \in DOMAIN calls : call_raises(calls[i], data, results) # "None"}
        stop == IF raising = {} THEN Len(calls) + 1
                ELSE CHOOSE i \in raising : \A j \in raising : i <= j
        added == {i \in 1..(stop - 1) : calls[i].heading # ""}
        nth(k) == CHOOSE i \in added : Cardinality({j \in added : j <= i}) = k
    IN  [exception |-> IF raising = {} THEN "None"
                       ELSE call_raises(calls[stop], data, results),
         headings |-> Cells([k \in 1..Cardinality(added) |-> calls[nth(k)].heading])]

\* The keys of data and of results generate_report reads for a method.
report_reads(method) ==
    LET calls == report_calls(method)
    IN  [data |-> UNION {calls[i].data : i \in DOMAIN calls},
         results |-> UNION {calls[i].results : i \in DOMAIN calls}]

-----------------------------------------------------------------------------
(* The page: widgets, the script's run, the operator's interactions.       *)

Simple == "Simple (Contributions)"

Complex == "Complex (Seven Steps)"

\* A faulty variant of TaxRates: the list offers 100% as well.
TaxRatesWithFull == {Dec(20, 100), Dec(40, 100), Dec(45, 100), RInt(1)}

\* st.sidebar.selectbox("Marginal Tax Rate", [0.20, 0.40, 0.45], index=1, ...)
TaxRates == {Dec(20, 100), Dec(40, 100), Dec(45, 100)}

\* st.selectbox("Retirement Age", [60, 65, 68], index=1)
RetirementAges == {60, 65, 68}

Genders == {"Male", "Female"}

\* Interactions of one session, and how far outside the band the lookup is probed.
MaxInteractions == 3

AgeSlack == 2

\* Values the operator types into the free number inputs.
AllowanceSamples == {RInt(-1000), RInt(0), RInt(1000), RInt(200000)}

SalarySamples == {RInt(30000), RInt(52000)}

ContribSamples == {RInt(5), Dec(75, 10)}

PeriodSamples == {RInt(1), Dec(5, 2)}

OldPensionSamples == {RInt(20000), RInt(10000)}

AccruedPensionSamples == {RInt(10000), RInt(0)}

NewPensionSamples == {RInt(5000), RInt(12000)}

AgeSamples == {MinAge, 50, MaxAge}

MultiplierSamples == {RInt(0), Dec(1825, 100)}

WithdrawalSamples == {0, 5, 100}

OldLumpSamples == {RInt(60000), RInt(0)}

NewLumpFutureSamples == {RInt(20000), RInt(75000)}

NewLumpNowSamples == {RInt(10000), RInt(0)}

\* An allowance typed in to the last digit: the double next below 1500, the
\* award of the Simple method's defaults.
NearAllowanceSamples == {RSub(RInt(1500), RPow(RInt(2), -42))}

VARIABLES widgets, button, exception, docx, interactions, probe

vars == <<widgets, button, exception, docx, interactions, probe>>

\* The value every widget shows when it is first rendered.
Defaults ==
    [method |-> Simple, tax_rate |-> Dec(40, 100), tax_free_remaining |-> RInt(0),
     gross_salary |-> RInt(30000), contrib |-> RInt(5), period |-> RInt(1),
     old_pension |-> RInt(20000), accrued_pension |-> RInt(10000),
     new_pension |-> RInt(5000), gender |-> "Male", claimant_age |-> 50,
     ret_age |-> 65, multiplier |-> auto_multiplier("Male", 50, 65),
     withdrawal |-> 5, old_lump |-> RInt(60000), new_lump_future |-> RInt(20000),
     new_lump_now |-> RInt(10000)]

\* The locals of the script's run on the widget values w.
run(w) ==
    IF w.method = Simple
    THEN simple_method(Assign(w, "exception", "None"))
    ELSE complex_method(Assign(w, "exception", "None"))

page == run(widgets)

NoProbe == [gender |-> "None"]

NoDocx == [returned |-> FALSE, headings |-> <<>>]

\* docx = generate_report(r_data, r_res, "Simple" if method == ... else "Complex")
st_download_button(report) ==
    IF report.exception # "None"
    THEN [exception |-> report.exception, docx |-> NoDocx]
    ELSE [exception |-> "None",
          docx |-> [returned |-> TRUE, headings |-> report.headings]]

report_outcome(env) ==
    IF Raised(env) THEN [exception |-> env.exception, docx |-> NoDocx]
    ELSE st_download_button(
             generate_report(env.r_data, env.r_res,
                             IF env.method = Simple THEN "Simple" ELSE "Complex"))

\* if st.button("Generate Word Report"): the script's run, then the report.
download(w) ==
    report_outcome(run(w))

\* The script re-runs on the changed widget values with the report button not
\* pressed; its one raise is the division of the gross-up.
Rerun ==
    /\ interactions < MaxInteractions
    /\ widgets' # widgets
    /\ button' = FALSE
    /\ exception' = IF RSign(RSub(RInt(1), widgets'.tax_rate)) = 0
                    THEN "ZeroDivisionError" ELSE "None"
    /\ docx' = NoDocx
    /\ interactions' = interactions + 1
    /\ UNCHANGED probe

\* The multiplier input's default is the looked-up value: when that value changes
\* the input is a new widget and shows the new default.
Remount(w, old, new) == IF new # old THEN [w EXCEPT !.multiplier = new] ELSE w

WithAutoMultiplier(w) ==
    Remount(w, auto_multiplier(widgets.gender, widgets.claimant_age, widgets.ret_age),
            auto_multiplier(w.gender, w.claimant_age, w.ret_age))

Init ==
    /\ widgets = Defaults
    /\ button = FALSE
    /\ exception = "None"
    /\ docx = NoDocx
    /\ interactions = 0
    /\ probe = NoProbe

\* The operator selects the other radio option (selecting the option already
\* shown is no interaction).  The widgets of the branch not rendered are
\* dropped and show their defaults when rendered again.
ChangeMethod ==
    /\ \E m \in {Simple, Complex} \ {widgets.method} :
           widgets' = [Defaults EXCEPT !.method = m, !.tax_rate = widgets.tax_rate,
                           !.tax_free_remaining = widgets.tax_free_remaining]
    /\ Rerun

ChangeTaxRate ==
    /\ \E v \in TaxRates : widgets' = [widgets EXCEPT !.tax_rate = v]
    /\ Rerun

ChangeTaxFreeRemaining ==
    /\ \E v \in AllowanceSamples : widgets' = [widgets EXCEPT !.tax_free_remaining = v]
    /\ Rerun

ChangeGrossSalary ==
    /\ widgets.method = Simple
    /\ \E v \in SalarySamples : widgets' = [widgets EXCEPT !.gross_salary = v]
    /\ Rerun

ChangeContrib ==
    /\ widgets.method = Simple
    /\ \E v \in ContribSamples : widgets' = [widgets EXCEPT !.contrib = v]
    /\ Rerun

ChangePeriod ==
    /\ widgets.method = Simple
    /\ \E v \in PeriodSamples : widgets' = [widgets EXCEPT !.period = v]
    /\ Rerun

ChangeOldPension ==
    /\ widgets.method = Complex
    /\ \E v \in OldPensionSamples : widgets' = [widgets EXCEPT !.old_pension = v]
    /\ Rerun

ChangeAccruedPension ==
    /\ widgets.method = Complex
    /\ \E v \in AccruedPensionSamples : widgets' = [widgets EXCEPT !.accrued_pension = v]
    /\ Rerun

ChangeNewPension ==
    /\ widgets.method = Complex
    /\ \E v \in NewPensionSamples : widgets' = [widgets EXCEPT !.new_pension = v]
    /\ Rerun

ChangeGender ==
    /\ widgets.method = Complex
    /\ \E v \in Genders : widgets' = WithAutoMultiplier([widgets EXCEPT !.gender = v])
    /\ Rerun

ChangeClaimantAge ==
    /\ widgets.method = Complex
    /\ \E v \in AgeSamples : widgets' = WithAutoMultiplier([widgets EXCEPT !.claimant_age = v])
    /\ Rerun

ChangeRetAge ==
    /\ widgets.method = Complex
    /\ \E v \in RetirementAges : widgets' = WithAutoMultiplier([widgets EXCEPT !.ret_age = v])
    /\ Rerun

ChangeMultiplier ==
    /\ widgets.method = Complex
    /\ \E v \in MultiplierSamples : widgets' = [widgets EXCEPT !.multiplier = v]
    /\ Rerun

ChangeWithdrawal ==
    /\ widgets.method = Complex
    /\ \E v \in WithdrawalSamples : widgets' = [widgets EXCEPT !.withdrawal = v]
    /\ Rerun

ChangeOldLump ==
    /\ widgets.method = Complex
    /\ \E v \in OldLumpSamples : widgets' = [widgets EXCEPT !.old_lump = v]
    /\ Rerun

ChangeNewLumpFuture ==
    /\ widgets.method = Complex
    /\ \E v \in NewLumpFutureSamples : widgets' = [widgets EXCEPT !.new_lump_future = v]
    /\ Rerun

ChangeNewLumpNow ==
    /\ widgets.method = Complex
    /\ \E v \in NewLumpNowSamples : widgets' = [widgets EXCEPT !.new_lump_now = v]
    /\ Rerun

\* The operator presses "Generate Word Report": the script re-runs with the
\* button set and calls generate_report on the run's report data.
ClickGenerate ==
    /\ interactions < MaxInteractions
    /\ \E out \in {download(widgets)} :
           /\ button' = TRUE
           /\ exception' = out.exception
           /\ docx' = out.docx
    /\ interactions' = interactions + 1
    /\ UNCHANGED <<widgets, probe>>

Next ==
    \/ ChangeMethod
    \/ ChangeTaxRate
    \/ ChangeTaxFreeRemaining
    \/ ChangeGrossSalary
    \/ ChangeContrib
    \/ ChangePeriod
    \/ ChangeOldPension
    \/ ChangeAccruedPension
    \/ ChangeNewPension
    \/ ChangeGender
    \/ ChangeClaimantAge
    \/ ChangeRetAge
    \/ ChangeMultiplier
    \/ ChangeWithdrawal
    \/ ChangeOldLump
    \/ ChangeNewLumpFuture
    \/ ChangeNewLumpNow
    \/ ClickGenerate

Spec == Init /\ [][Next]_vars

\* The table build and lookup of Step 4 applied to a gender, a retirement age
\* and an age in or around the band.
LookupProbe ==
    /\ probe = NoProbe
    /\ \E g \in Genders, a \in (MinAge - AgeSlack)..(MaxAge + AgeSlack),
          r \in RetirementAges :
           probe' = step4_lookup([gender |-> g, claimant_age |-> a, ret_age |-> r])
    /\ UNCHANGED <<widgets, button, exception, docx, interactions>>

LookupSpec == Init /\ [][LookupProbe]_vars

\* The Simple calculation as a function of its inputs.
SimpleProbe ==
    /\ probe = NoProbe
    /\ \E s \in SalarySamples, c \in ContribSamples, y \in PeriodSamples,
          t \in TaxRates, a \in AllowanceSamples \cup NearAllowanceSamples :
           probe' = run([Defaults EXCEPT !.method = Simple, !.gross_salary = s,
                             !.contrib = c, !.period = y, !.tax_rate = t,
                             !.tax_free_remaining = a])
    /\ UNCHANGED <<widgets, button, exception, docx, interactions>>

\* The Complex calculation as a function of its inputs.
ComplexProbe ==
    /\ probe = NoProbe
    /\ \E age \in AgeSamples, r \in RetirementAges, t \in TaxRates,
          a \in AllowanceSamples, wd \in WithdrawalSamples, ol \in OldLumpSamples,
          np \in NewPensionSamples :
           probe' = run([Defaults EXCEPT !.method = Complex, !.claimant_age = age,
                             !.ret_age = r, !.tax_rate = t, !.tax_free_remaining = a,
                             !.withdrawal = wd, !.old_lump = ol, !.new_pension = np,
                             !.multiplier = auto_multiplier("Male", age, r)])
    /\ UNCHANGED <<widgets, button, exception, docx, interactions>>

EngineSpec == Init /\ [][SimpleProbe \/ ComplexProbe]_vars

-----------------------------------------------------------------------------
(* Properties.                                                             *)

\* The keys of the report payload of a run: r_data together with r_res.
payload_keys(env) == DOMAIN env.r_data \cup DOMAIN env.r_res

\* The run of the other method, for the payload it builds.
other_method ==
    run([Defaults EXCEPT !.method = IF widgets.method = Simple THEN Complex ELSE Simple])

\* The method name handed to generate_report.
report_method == IF widgets.method = Simple THEN "Simple" ELSE "Complex"

MultiplierColumns == {"Retire at 60", "Retire at 65", "Retire at 68"}

\* C1: for every gender, every age 40..60 and every retirement age, the
\* multiplier in the table of get_ogden_subset is not negative, and down a
\* column (fixed gender and retirement age) the multiplier at age a+1 is never
\* greater than the one at age a; the value the lookup gives is one of them.
C1_TableNonNegativeNonIncreasing ==
    probe # NoProbe =>
        /\ \A i \in DOMAIN ages : probe.df_ogden["Age at Trial"][i] = RInt(MinAge + i - 1)
        /\ \A c \in MultiplierColumns :
               /\ DOMAIN probe.df_ogden[c] = 1..(MaxAge - MinAge + 1)
               /\ \A i \in DOMAIN probe.df_ogden[c] :
                      /\ RLe(RInt(0), probe.df_ogden[c][i])
                      /\ i > 1 => RLe(probe.df_ogden[c][i], probe.df_ogden[c][i - 1])
        /\ RLe(RInt(0), probe.auto_multiplier)

\* C1's case: the last row of the lowest column of the table for females,
\* 21.00 - 0.5 * 20, has been looked up.
C1_LastRowLookedUp ==
    /\ probe # NoProbe
    /\ probe.gender = "Female"
    /\ probe.claimant_age = MaxAge
    /\ probe.ret_age = 68
    /\ probe.found_in_table
    /\ probe.auto_multiplier = RInt(11)

\* C2: for an age in 40..60 the lookup finds the one row whose age equals the
\* claimant's and gives that row's value in the retirement age's column; for
\* any other age it gives found_in_table = FALSE and the multiplier 0.0, the
\* IndexError being caught.
C2_LookupExactOrNotFound ==
    probe # NoProbe =>
        LET rows == {i \in DOMAIN probe.df_ogden["Age at Trial"] :
                         probe.df_ogden["Age at Trial"][i] = RInt(probe.claimant_age)}
        IN  /\ probe.target_col \in MultiplierColumns
            /\ IF probe.claimant_age \in MinAge..MaxAge
               THEN /\ probe.found_in_table
                    /\ rows = {probe.claimant_age - MinAge + 1}
                    /\ \A i \in rows :
                           probe.auto_multiplier = probe.df_ogden[probe.target_col][i]
               ELSE /\ ~probe.found_in_table
                    /\ rows = {}
                    /\ probe.auto_multiplier = RInt(0)

\* C2's case: an age just above the band has been looked up and not found.
C2_AgeAboveBandNotFound ==
    /\ probe # NoProbe
    /\ probe.claimant_age = MaxAge + 1
    /\ ~probe.found_in_table
    /\ probe.auto_multiplier = RInt(0)

\* C3: the tax rate the gross-up divides by is never 1: 1 - tax_rate is not
\* zero in any state of the page, and no run of the script, with or without
\* the report, ends in a ZeroDivisionError.
C3_NoDivisionByZero ==
    /\ RSign(RSub(RInt(1), widgets.tax_rate)) # 0
    /\ page.exception # "ZeroDivisionError"
    /\ exception # "ZeroDivisionError"

\* C3's case: the gross-up has divided a positive taxable part by 1 - 0.45,
\* the smallest divisor the rates allow.
C3_DividedAtHighestRate ==
    /\ interactions > 0
    /\ widgets.tax_rate = Dec(45, 100)
    /\ page.exception = "None"
    /\ RSign(page.taxable) > 0
    /\ page.gross_total = RAdd(RMin(page.net_total, widgets.tax_free_remaining),
                               RDiv(page.taxable, Dec(55, 100)))

\* C4: the discount factor is (1 - 0.0025) to the power -years_to_retire as
\* the doubles give it, which is (400/399)^years to within rounding, with
\* years_to_retire = retirement age - age at trial as given; it is above 1
\* when years_to_retire > 0 and is 1 when it is 0.
C4_DiscountFactor ==
    (probe # NoProbe /\ probe.method = Complex) =>
        /\ probe.yrs_to_retire = probe.ret_age - probe.claimant_age
        /\ probe.ls_discount_factor =
               RPow(RSub(RInt(1), Dec(25, 10000)), -(probe.ret_age - probe.claimant_age))
        /\ Within(ExactMul(probe.ls_discount_factor,
                           ExactPow(RInt(399), probe.yrs_to_retire)),
                  ExactPow(RInt(400), probe.yrs_to_retire),
                  ExactPow(RInt(400), probe.yrs_to_retire))
        /\ probe.yrs_to_retire > 0 => RLt(RInt(1), probe.ls_discount_factor)
        /\ probe.yrs_to_retire = 0 => probe.ls_discount_factor = RInt(1)

\* C4's case: the factor for the longest term, 28 years, has been computed
\* and is above 1.
C4_LongestTermAboveOne ==
    /\ probe # NoProbe
    /\ probe.method = Complex
    /\ probe.yrs_to_retire = 28
    /\ RLt(RInt(1), probe.ls_discount_factor)

\* C5: pv_old_lump = old_lump * discount factor, pv_new_total =
\* new_lump_future * discount factor + new_lump_now (the lump sum already
\* received is not discounted), and lump_val = pv_old_lump - pv_new_total goes
\* into total_raw as it is, negative or not: total_raw is the double cap_val +
\* lump_val, so what total_raw holds over cap_val is the difference of the
\* present values to within rounding.
C5_LumpSums ==
    (probe # NoProbe /\ probe.method = Complex) =>
        /\ probe.pv_old_lump = RMul(probe.old_lump, probe.ls_discount_factor)
        /\ probe.pv_new_total =
               RAdd(RMul(probe.new_lump_future, probe.ls_discount_factor),
                    probe.new_lump_now)
        /\ probe.lump_val = RSub(probe.pv_old_lump, probe.pv_new_total)
        /\ probe.total_raw = RAdd(probe.cap_val, probe.lump_val)
        /\ Within(ExactSub(probe.total_raw, probe.cap_val),
                  ExactSub(probe.pv_old_lump, probe.pv_new_total),
                  ExactAdd(ExactAbs(probe.cap_val), ExactAbs(probe.lump_val)))

\* C5's case: with no old lump sum the lump sum loss is negative and has
\* gone into total_raw.
C5_NegativeLumpSumLoss ==
    /\ probe # NoProbe
    /\ probe.method = Complex
    /\ probe.old_lump = RInt(0)
    /\ RSign(probe.lump_val) < 0
    /\ RLt(probe.total_raw, probe.cap_val)

\* C6 as amended: the three chart components, capital value and lump sum loss
\* each net of the withdrawal and the tax element, sum to gross_total, and
\* net_total is total_raw * (1 - withdrawal/100), both to within the rounding
\* of the doubles (a relative difference of at most 2^-40) and not to the last
\* bit; total_raw is the double cap_val + lump_val and tax_element the double
\* gross_total - net_total.
C6_ComponentsSumUpToRounding ==
    (probe # NoProbe /\ probe.method = Complex) =>
        /\ Within(ExactAdd(ExactAdd(probe.comp_data[1], probe.comp_data[2]),
                           probe.comp_data[3]),
                  probe.gross_total,
                  ExactAdd(ExactAdd(ExactAbs(probe.cap_val), ExactAbs(probe.lump_val)),
                           ExactAbs(probe.gross_total)))
        /\ Within(ExactMul(probe.net_total, RInt(100)),
                  ExactMul(probe.total_raw, RInt(100 - probe.withdrawal)),
                  ExactMul(probe.total_raw, RInt(100)))
        /\ probe.total_raw = RAdd(probe.cap_val, probe.lump_val)
        /\ probe.tax_element = RSub(probe.gross_total, probe.net_total)

\* C6's case: a run with a withdrawal of 5%, a lump sum loss and tax to
\* gross up, in which the three components as the script rounds them do not
\* add up to the double gross_total.
C6_SumOffByRounding ==
    /\ probe # NoProbe
    /\ probe.method = Complex
    /\ probe.withdrawal = 5
    /\ RSign(probe.lump_val) # 0
    /\ RSign(probe.deduction) > 0
    /\ RSign(probe.tax_element) > 0
    /\ RAdd(RAdd(probe.comp_data[1], probe.comp_data[2]), probe.comp_data[3])
           # probe.gross_total

\* C6 as stated: the three chart components sum exactly to gross_total, and
\* net_total = total_raw * (1 - withdrawal/100), with total_raw = cap_val +
\* lump_val and tax_element = gross_total - net_total.
C6_ComponentsSumToGross ==
    (probe # NoProbe /\ probe.method = Complex) =>
        /\ RAdd(RAdd(probe.comp_data[1], probe.comp_data[2]), probe.comp_data[3])
               = probe.gross_total
        /\ probe.net_total =
               RMul(probe.total_raw,
                    RSub(RInt(1), RDiv(RInt(probe.withdrawal), RInt(100))))
        /\ probe.total_raw = RAdd(probe.cap_val, probe.lump_val)
        /\ probe.tax_element = RSub(probe.gross_total, probe.net_total)

\* C7: in Simple mode net_total = salary * (contrib/100) * period, taxable =
\* max(0, net_total - allowance), gross_total = min(net_total, allowance) +
\* taxable / (1 - tax_rate); salary 30000, 5%, 1 year, 40% tax and no allowance
\* give net_total 1500, taxable 1500 and gross_total 2500.
C7_SimpleMode ==
    (probe # NoProbe /\ probe.method = Simple) =>
        /\ probe.net_total =
               RMul(RMul(probe.gross_salary, RDiv(probe.contrib, RInt(100))), probe.period)
        /\ probe.taxable =
               RMax(RInt(0), RSub(probe.net_total, probe.tax_free_remaining))
        /\ probe.gross_total =
               RAdd(RMin(probe.net_total, probe.tax_free_remaining),
                    RDiv(probe.taxable, RSub(RInt(1), probe.tax_rate)))
        /\ ( /\ probe.gross_salary = RInt(30000)
             /\ probe.contrib = RInt(5)
             /\ probe.period = RInt(1)
             /\ probe.tax_rate = Dec(40, 100)
             /\ probe.tax_free_remaining = RInt(0) )
           => /\ probe.net_total = RInt(1500)
              /\ probe.taxable = RInt(1500)
              /\ probe.gross_total = RInt(2500)

\* C7's case: a Simple run over two and a half years: 52000 * 7.5% * 2.5 =
\* 9750, of which 8750 is above the allowance of 1000 and is grossed up at 20%.
C7_SimpleOverYears ==
    /\ probe # NoProbe
    /\ probe.method = Simple
    /\ probe.gross_salary = RInt(52000)
    /\ probe.period = Dec(5, 2)
    /\ probe.tax_rate = Dec(20, 100)
    /\ probe.net_total = RInt(9750)
    /\ probe.taxable = RInt(8750)
    /\ probe.gross_total = Dec(2387500, 200)

\* C8: whenever "Generate Word Report" has been pressed, generate_report has
\* returned the document with the headings Inputs & Assumptions, Calculation
\* Detail, Grossed Up Award in this order, and the run did not end in an
\* exception.
C8_ReportCompletes ==
    button =>
        /\ exception = "None"
        /\ docx.returned
        /\ docx.headings = <<"1. Inputs & Assumptions", "2. Calculation Detail",
                             "3. Grossed Up Award">>

\* C8's case: the button has been pressed and the run ended in the
\* AttributeError of p.add_runner, before the first section heading.
C8_ClickRaisesAttributeError ==
    /\ button
    /\ exception = "AttributeError"
    /\ ~docx.returned
    /\ docx.headings = <<>>

SharedFields == {"net_total", "gross_total", "tax_rate"}

\* C9 as amended: both payloads carry net_total, gross_total and tax_rate under
\* these names; every other field is in the payload of one method only, the
\* Simple payload having gross_salary and contrib_rate of its own and the
\* Complex payload the fields of the Complex calculation; and every field
\* generate_report reads for a method is in the payload built for it.
C9_PayloadFieldsPerMethod ==
    \E here \in {page}, there \in {payload_keys(other_method)} :
        /\ SharedFields \subseteq payload_keys(here) \cap there
        /\ report_reads(report_method).data \subseteq DOMAIN here.r_data
        /\ report_reads(report_method).results \subseteq DOMAIN here.r_res
        /\ widgets.method = Simple =>
               payload_keys(here) \ there = {"gross_salary", "contrib_rate"}
        /\ widgets.method = Complex =>
               payload_keys(here) \ there =
                   {"age", "gender", "ret_age", "table_ref", "multiplier", "withdrawal",
                    "years_to_retire", "old_lump", "new_lump_future", "new_lump_now",
                    "net_annual_loss", "capital_value_raw", "lump_sum_val",
                    "withdrawal_deduction", "ls_discount_factor"}

\* C9's case: the Complex payload has been built after an interaction and
\* holds a field of its own beside the shared ones.
C9_ComplexPayloadBuilt ==
    /\ interactions > 0
    /\ widgets.method = Complex
    /\ "table_ref" \in DOMAIN page.r_data
    /\ SharedFields \subseteq payload_keys(page)

\* C9 as stated: as above, but a field specific to one method is only ever in
\* the Complex payload, so every field of the Simple payload is in the Complex
\* payload too.
C9_SpecificFieldsOnlyInComplex ==
    /\ SharedFields \subseteq payload_keys(page) \cap payload_keys(other_method)
    /\ report_reads(report_method).data \subseteq DOMAIN page.r_data
    /\ report_reads(report_method).results \subseteq DOMAIN page.r_res
    /\ widgets.method = Simple => payload_keys(page) \subseteq payload_keys(other_method)

\* C10 as amended: for every run, gross_total >= net_total; gross_total =
\* net_total whenever net_total <= allowance; and when net_total > allowance,
\* taking tax at tax_rate off the part of gross_total above the allowance
\* leaves net_total to within the rounding of the doubles (a relative
\* difference of at most 2^-40), not to the last bit.
C10_GrossUpUpToRounding ==
    probe # NoProbe =>
        /\ RLe(probe.net_total, probe.gross_total)
        /\ RLe(probe.net_total, probe.tax_free_remaining) =>
               probe.gross_total = probe.net_total
        /\ RLt(probe.tax_free_remaining, probe.net_total) =>
               Within(ExactSub(probe.gross_total,
                               ExactMul(probe.tax_rate,
                                        ExactSub(probe.gross_total,
                                                 probe.tax_free_remaining))),
                      probe.net_total,
                      ExactAdd(ExactAdd(ExactAbs(probe.gross_total),
                                        ExactAbs(probe.tax_free_remaining)),
                               ExactAbs(probe.net_total)))

\* C10's case: a Complex run whose net_total is above a negative allowance
\* and is grossed up at 45%, and in which taking the tax off gross_total in
\* doubles does not give back the double net_total.
C10_GrossUpOffByRounding ==
    /\ probe # NoProbe
    /\ probe.method = Complex
    /\ probe.tax_rate = Dec(45, 100)
    /\ probe.tax_free_remaining = RInt(-1000)
    /\ RLt(probe.tax_free_remaining, probe.net_total)
    /\ RLt(probe.net_total, probe.gross_total)
    /\ RSub(probe.gross_total,
            RMul(probe.tax_rate, RSub(probe.gross_total, probe.tax_free_remaining)))
           # probe.net_total

\* C10 as stated: for every run, gross_total >= net_total; gross_total =
\* net_total exactly when net_total <= allowance; and when net_total >
\* allowance, taking tax at tax_rate off the part of gross_total above the
\* allowance leaves exactly net_total: gross_total - tax_rate * (gross_total -
\* allowance) = net_total.
C10_GrossUp ==
    probe # NoProbe =>
        /\ RLe(probe.net_total, probe.gross_total)
        /\ (probe.gross_total = probe.net_total)
               <=> RLe(probe.net_total, probe.tax_free_remaining)
        /\ RLt(probe.tax_free_remaining, probe.net_total) =>
               RSub(probe.gross_total,
                    RMul(probe.tax_rate,
                         RSub(probe.gross_total, probe.tax_free_remaining)))
                   = probe.net_total
====
